---------------------------- MODULE Spec2Model ----------------------------
(***************************************************************************)
(* Model of App.runApp (src/main.go): the GitHub mirror-backup run.        *)
(*                                                                         *)
(* A run is one process p.  Its position in runApp is pc[p]; every         *)
(* external call (GitHub API, filesystem function, git command) is one     *)
(* action, which also performs the code that follows the call up to the    *)
(* next external call.  The outcome of an external call is chosen by the   *)
(* environment.  trace[p] is the list of external calls made so far, in    *)
(* order, as a recording CommandRunner / client / filesystem would see     *)
(* them.  The backup directory (exists) and the remote URL stored in each  *)
(* mirror's git configuration (remote) are shared by all runs.             *)
(*                                                                         *)
(* Strings are sequences of text pieces, so that formatting                *)
(* (fmt.Sprintf, fmt.Errorf, filepath.Join) is concatenation and           *)
(* "contains" is a contiguous-subsequence test.                            *)
(***************************************************************************)
EXTENDS Integers, Sequences, FiniteSets, TLC

VARIABLES pc, GithubToken, BackupFolder, username, opt, allRepos, idx,
          originalWd, cwd, result, trace, exists, remote

vars == <<pc, GithubToken, BackupFolder, username, opt, allRepos, idx,
          originalWd, cwd, result, trace, exists, remote>>

(***************************************************************************)
(* Bounds of the model.                                                    *)
(***************************************************************************)
\* the most repositories a listing carries in total
MaxRepos == 2
\* the most external calls that fail in one run
MaxFaults == 2

\* the runs: process 1 is the run; process 2 is a second instance, which
\* Spec never starts
Procs == {1, 2}

(***************************************************************************)
(* Strings.                                                                *)
(***************************************************************************)
EmptyStr == << >>

Str(s) == <<s>>

\* sub occurs in s as a contiguous run of pieces (strings.Contains)
Contains(s, sub) ==
    \E i \in 1..(Len(s) - Len(sub) + 1) : SubSeq(s, i, i + Len(sub) - 1) = sub

\* s starts with pre (strings.HasPrefix)
HasPrefix(s, pre) ==
    /\ Len(pre) <= Len(s)
    /\ SubSeq(s, 1, Len(pre)) = pre

Slash == "/"

(***************************************************************************)
(* Inputs of a run.                                                        *)
(***************************************************************************)
Secret == Str("s3cret")

Tokens == {EmptyStr, Secret}

Folders == {EmptyStr, <<Slash, "data", Slash>>}

Logins == {Str("octo")}

\* a repository that was never backed up, and one that may have a mirror
NewRepo == <<"o", Slash, "a">>

OldRepo == <<"o", Slash, "b">>

RepoNames == {NewRepo, OldRepo}

ErrMsgs == {Str("e1"), Str("e2")}

\* the page numbers the API signals as NextPage; 0 signals the last page
NextPages == {0, 2}

\* the numbers of repositories a response page carries
PageSizes == {0, 1, 2}

StartDir == <<Slash, "app">>

\* combined output of a failed administrative command
OutputText == Str("out")

(***************************************************************************)
(* Pure functions of runApp.                                               *)
(***************************************************************************)
DefaultBackupFolder == <<Slash, "ghbackup">>

PerPage == 100

\* a blank BackupFolder is used as it is
EffectiveFolder_NoDefault(f) == f

\* lines 91-93: a blank BackupFolder becomes the default
EffectiveFolder(f) == IF f = EmptyStr THEN DefaultBackupFolder ELSE f

\* filepath.Clean on the pieces: trailing separators are dropped (the root
\* stays) and of a run of separators only the first is kept
RECURSIVE StripTrailing(_)
StripTrailing(s) ==
    IF Len(s) > 1 /\ s[Len(s)] = Slash
    THEN StripTrailing(SubSeq(s, 1, Len(s) - 1))
    ELSE s

RECURSIVE CollapseFrom(_, _)
CollapseFrom(s, i) ==
    IF i > Len(s) THEN << >>
    ELSE IF s[i] = Slash /\ i > 1 /\ s[i - 1] = Slash
         THEN CollapseFrom(s, i + 1)
         ELSE <<s[i]>> \o CollapseFrom(s, i + 1)

Clean(s) == StripTrailing(CollapseFrom(s, 1))

\* filepath.Join(a, b) for non-empty a and b
Join(a, b) == Clean(a \o <<Slash>> \o b)

\* line 133
authenticatedCloneURL(u, t, n) ==
    <<"https://">> \o u \o <<":">> \o t \o <<"@", "github.com/">> \o n \o <<".git">>

\* the unauthenticated URL without the ".git" suffix
unauthenticatedCloneURL_NoSuffix(n) == <<"https://", "github.com/">> \o n

\* line 134
unauthenticatedCloneURL(n) == <<"https://", "github.com/">> \o n \o <<".git">>

\* line 135
backupPath(f, n) == Join(f, n \o <<".git">>)

AllPaths == {backupPath(EffectiveFolder(f), n) : f \in Folders, n \in RepoNames}

PathsUnder(f) == {backupPath(EffectiveFolder(f), n) : n \in RepoNames}

(***************************************************************************)
(* Commands, as the argument lists handed to the CommandRunner.            *)
(***************************************************************************)
Git == Str("git")

ConfigArgs ==
    <<Git, Str("config"), Str("--global"), Str("--add"), Str("safe.directory"), Str("*")>>

CloneArgs(url, path) ==
    <<Git, Str("clone"), Str("--mirror"), Str("--no-checkout"), Str("--progress"), url, path>>

LfsArgs == <<Git, Str("lfs"), Str("fetch"), Str("--all")>>

SetUrlArgs(url) == <<Git, Str("remote"), Str("set-url"), Str("origin"), url>>

UpdateArgs == <<Git, Str("remote"), Str("update")>>

(***************************************************************************)
(* Results of runApp.                                                      *)
(***************************************************************************)
Running == [state |-> "running", msg |-> EmptyStr]

Nil == [state |-> "nil", msg |-> EmptyStr]

Errorf(msg) == [state |-> "error", msg |-> msg]

TokenError ==
    Errorf(<<"Error: ", "GITHUB_SECRET", " environment variable is not set.">>)

MkdirError(f, e) == Errorf(<<"Error creating backup folder ">> \o f \o <<": ">> \o e)

ConfigError(e, out) ==
    Errorf(<<"Error setting global git config: ">> \o e \o <<"\nOutput: ">> \o out)

\* the cause is left out of the message
UserError_NoCause(e) == Errorf(<<"Error getting authenticated user">>)

UserError(e) == Errorf(<<"Error getting authenticated user: ">> \o e)

ListError(e) == Errorf(<<"Error listing repositories: ">> \o e)

(***************************************************************************)
(* The record of one external call.                                        *)
(*   op    the function called                                             *)
(*   repo  the index in allRepos being processed (0 during setup)          *)
(*   dir   the dir argument of a command                                   *)
(*   args  the arguments                                                   *)
(*   res   "ok", "error", or for Stat also "notexist"                      *)
(*   err   the message of the error returned, empty when there is none     *)
(*   opt   the list options of a ListUserRepositories request              *)
(*   wd    the directory a successful Getwd returned                       *)
(*   repos the repositories of the page a successful request returned      *)
(*   next  the NextPage of the response to a successful request            *)
(***************************************************************************)
NoOpt == [Page |-> 0, PerPage |-> 0]

Res(ok) == IF ok THEN "ok" ELSE "error"

\* the message of a failure inside the repository loop, which is only logged
LoggedErr == Str("e1")

\* a call made while processing entry repo of the listing
Event(op, repo, dir, args, res) ==
    [op |-> op, repo |-> repo, dir |-> dir, args |-> args, res |-> res,
     err |-> IF res = "error" THEN LoggedErr ELSE EmptyStr, opt |-> NoOpt,
     wd |-> EmptyStr, repos |-> << >>, next |-> 0, origin |-> EmptyStr]

\* a call of Getwd, which returns the directory wd when ok
GetwdEvent(repo, ok, wd) ==
    [Event("Getwd", repo, EmptyStr, << >>, Res(ok)) EXCEPT
        !.wd = IF ok THEN wd ELSE EmptyStr]

\* a call of the run-wide setup, failing with message e when not ok
SetupEvent(op, dir, args, ok, e) ==
    [op |-> op, repo |-> 0, dir |-> dir, args |-> args, res |-> Res(ok),
     err |-> IF ok THEN EmptyStr ELSE e, opt |-> NoOpt,
     wd |-> EmptyStr, repos |-> << >>, next |-> 0, origin |-> EmptyStr]

\* a transfer command run in dir, where git reads the URL origin from the
\* configuration of the mirror
TransferEvent(repo, dir, args, ok, origin) ==
    [Event("RunAndOutput", repo, dir, args, Res(ok)) EXCEPT !.origin = origin]

\* a request for a page with the options o, answered with repos and next
ListEvent(o, ok, e, repos, next) ==
    [op |-> "ListUserRepositories", repo |-> 0, dir |-> EmptyStr, args |-> << >>,
     res |-> Res(ok), err |-> IF ok THEN EmptyStr ELSE e, opt |-> o,
     wd |-> EmptyStr, repos |-> repos, next |-> next, origin |-> EmptyStr]

CmdOps == {"Run", "RunAndOutput"}


(***************************************************************************)
(* Initial state: process 1 is a run about to start, with any token and    *)
(* backup folder; the backup directory holds the mirror of OldRepo, left   *)
(* by an earlier run with the unauthenticated remote URL, or is empty.     *)
(* Process 2 is not started.                                               *)
(***************************************************************************)
Init ==
    /\ pc = [p \in Procs |-> IF p = 1 THEN "start" ELSE "off"]
    /\ \E t \in Tokens : GithubToken = [p \in Procs |-> t]
    /\ \E f \in Folders :
          /\ BackupFolder = [p \in Procs |-> f]
          /\ exists \in SUBSET {backupPath(EffectiveFolder(f), OldRepo)}
    /\ remote = [path \in AllPaths |->
                    IF path \in exists
                    THEN unauthenticatedCloneURL(
                             CHOOSE n \in RepoNames :
                                 \E f \in Folders : backupPath(EffectiveFolder(f), n) = path)
                    ELSE EmptyStr]
    /\ username = [p \in Procs |-> EmptyStr]
    /\ opt = [p \in Procs |-> [Page |-> 0, PerPage |-> 0]]
    /\ allRepos = [p \in Procs |-> << >>]
    /\ idx = [p \in Procs |-> 0]
    /\ originalWd = [p \in Procs |-> EmptyStr]
    /\ cwd = [p \in Procs |-> StartDir]
    /\ result = [p \in Procs |-> Running]
    /\ trace = [p \in Procs |-> << >>]

(***************************************************************************)
(* Building blocks of the actions.                                         *)
(***************************************************************************)
Goto(p, l) == pc' = [pc EXCEPT ![p] = l]

Call(p, ev) == trace' = [trace EXCEPT ![p] = Append(@, ev)]

\* the calls of the run that failed so far
Faults(p) == {k \in 1..Len(trace[p]) : trace[p][k].res = "error"}

\* the environment lets one more call fail: the failures of all the runs
\* that are followed count
CanFail(p) ==
    Cardinality(UNION {{<<q, k>> : k \in Faults(q)} : q \in Procs}) < MaxFaults

\* return err
Return(p, r) ==
    /\ pc' = [pc EXCEPT ![p] = "done"]
    /\ result' = [result EXCEPT ![p] = r]

\* the head of the range loop at line 128 for entry i of repos: the next
\* entry is taken up, or the loop is over and runApp returns nil (217)
LoopHead(p, repos, i) ==
    /\ idx' = [idx EXCEPT ![p] = i]
    /\ IF i > Len(repos)
       THEN Return(p, Nil)
       ELSE Goto(p, "stat") /\ UNCHANGED result

\* break: the end of a loop body ends the loop
Continue_Break(p) == LoopHead(p, allRepos[p], Len(allRepos[p]) + 1)

\* continue, and the fall through to the end of the loop body (213)
Continue(p) == LoopHead(p, allRepos[p], idx[p] + 1)

\* every entry is processed under the name of the entry before it
repoFullName_Previous(p) == allRepos[p][IF idx[p] > 1 THEN idx[p] - 1 ELSE 1]

repoFullName(p) == allRepos[p][idx[p]]

authURL(p) == authenticatedCloneURL(username[p], GithubToken[p], repoFullName(p))

\* the URL with the credentials is used where the one without is meant
unauthURL_WithCredentials(p) == authURL(p)

unauthURL(p) == unauthenticatedCloneURL(repoFullName(p))

curPath(p) == backupPath(BackupFolder[p], repoFullName(p))

\* git remote set-url origin url, run successfully in the mirror at path
\* git set-url and git clone that leave the configuration of the mirror alone
WriteRemote_Dropped(path, url) == UNCHANGED remote

WriteRemote(path, url) == remote' = [remote EXCEPT ![path] = url]

(***************************************************************************)
(* Run-wide setup, lines 85-126.                                           *)
(***************************************************************************)
\* the token is not checked
Start_NoTokenCheck(p) ==
    /\ pc[p] = "start"
    /\ BackupFolder' = [BackupFolder EXCEPT ![p] = EffectiveFolder(@)]
    /\ Goto(p, "mkdir")
    /\ UNCHANGED <<GithubToken, username, opt, allRepos, idx, originalWd, cwd,
                   result, trace, exists, remote>>

\* lines 87-93: the token check, and the default of the backup folder
Start(p) ==
    /\ pc[p] = "start"
    /\ IF GithubToken[p] = EmptyStr
       THEN /\ Return(p, TokenError)
            /\ UNCHANGED BackupFolder
       ELSE /\ BackupFolder' = [BackupFolder EXCEPT ![p] = EffectiveFolder(@)]
            /\ Goto(p, "mkdir")
            /\ UNCHANGED result
    /\ UNCHANGED <<GithubToken, username, opt, allRepos, idx, originalWd, cwd,
                   trace, exists, remote>>

\* the global git config is left out
MkdirAll_SkipConfig(p) ==
    /\ pc[p] = "mkdir"
    /\ \E ok \in BOOLEAN, e \in ErrMsgs :
          /\ ok => e = CHOOSE m \in ErrMsgs : TRUE
          /\ ~ok => CanFail(p)
          /\ Call(p, SetupEvent("MkdirAll", EmptyStr, <<BackupFolder[p]>>, ok, e))
          /\ IF ok
             THEN Goto(p, "user") /\ UNCHANGED result
             ELSE Return(p, MkdirError(BackupFolder[p], e))
    /\ UNCHANGED <<GithubToken, BackupFolder, username, opt, allRepos, idx,
                   originalWd, cwd, exists, remote>>

\* lines 95-97
MkdirAll(p) ==
    /\ pc[p] = "mkdir"
    /\ \E ok \in BOOLEAN, e \in ErrMsgs :
          /\ ok => e = CHOOSE m \in ErrMsgs : TRUE
          /\ ~ok => CanFail(p)
          /\ Call(p, SetupEvent("MkdirAll", EmptyStr, <<BackupFolder[p]>>, ok, e))
          /\ IF ok
             THEN Goto(p, "config") /\ UNCHANGED result
             ELSE Return(p, MkdirError(BackupFolder[p], e))
    /\ UNCHANGED <<GithubToken, BackupFolder, username, opt, allRepos, idx,
                   originalWd, cwd, exists, remote>>

\* the failure of the command is ignored
GitConfig_IgnoreError(p) ==
    /\ pc[p] = "config"
    /\ \E ok \in BOOLEAN, e \in ErrMsgs :
          /\ ok => e = CHOOSE m \in ErrMsgs : TRUE
          /\ ~ok => CanFail(p)
          /\ Call(p, SetupEvent("Run", EmptyStr, ConfigArgs, ok, e))
          /\ Goto(p, "user")
    /\ UNCHANGED <<GithubToken, BackupFolder, username, opt, allRepos, idx,
                   originalWd, cwd, result, exists, remote>>

\* lines 99-101
GitConfig(p) ==
    /\ pc[p] = "config"
    /\ \E ok \in BOOLEAN, e \in ErrMsgs :
          /\ ok => e = CHOOSE m \in ErrMsgs : TRUE
          /\ ~ok => CanFail(p)
          /\ Call(p, SetupEvent("Run", EmptyStr, ConfigArgs, ok, e))
          /\ IF ok
             THEN Goto(p, "user") /\ UNCHANGED result
             ELSE Return(p, ConfigError(e, OutputText))
    /\ UNCHANGED <<GithubToken, BackupFolder, username, opt, allRepos, idx,
                   originalWd, cwd, exists, remote>>

\* lines 103-112
GetAuthenticatedUser(p) ==
    /\ pc[p] = "user"
    /\ \E ok \in BOOLEAN, e \in ErrMsgs, login \in Logins :
          /\ ok => e = CHOOSE m \in ErrMsgs : TRUE
          /\ ~ok => CanFail(p)
          /\ Call(p, SetupEvent("GetAuthenticatedUser", EmptyStr, << >>, ok, e))
          /\ IF ok
             THEN /\ username' = [username EXCEPT ![p] = login]
                  /\ opt' = [opt EXCEPT ![p] = [Page |-> 0, PerPage |-> PerPage]]
                  /\ Goto(p, "list")
                  /\ UNCHANGED result
             ELSE /\ Return(p, UserError(e))
                  /\ UNCHANGED <<username, opt>>
    /\ UNCHANGED <<GithubToken, BackupFolder, allRepos, idx, originalWd, cwd,
                   exists, remote>>

\* the pages the API may answer with, when the listing has room for more
Pages(room) == UNION {[1..n -> RepoNames] : n \in {m \in PageSizes : m <= room}}

\* the NextPage the API may signal in answer to a request for page: no
\* further page, or a later page
NextPageOf(page) == {n \in NextPages : n = 0 \/ n > page}

\* the next request asks for the page after the one just fetched
NextOpt_Increment(o, next) == [o EXCEPT !.Page = @ + 1]

\* line 123: the next request asks for the page the response signalled
NextOpt(o, next) == [o EXCEPT !.Page = next]

\* a failed page ends the listing, and what was fetched is backed up
ListFailed_Partial(p, e) ==
    /\ LoopHead(p, allRepos[p], 1)
    /\ UNCHANGED <<allRepos, opt>>

\* a page that could not be fetched is requested again
ListFailed_Retry(p, e) == UNCHANGED <<pc, result, allRepos, opt, idx>>

\* lines 116-118: a page could not be fetched
ListFailed(p, e) ==
    /\ Return(p, ListError(e))
    /\ UNCHANGED <<allRepos, opt, idx>>

\* lines 114-126: one iteration of the pagination loop
Listed(p, ok, e, repos, next) ==
    /\ pc[p] = "list"
    /\ Call(p, ListEvent(opt[p], ok, e, repos, next))
    /\ IF ~ok
       THEN ListFailed(p, e)
       ELSE /\ allRepos' = [allRepos EXCEPT ![p] = @ \o repos]
            /\ IF next = 0
               THEN /\ LoopHead(p, allRepos'[p], 1)
                    /\ UNCHANGED opt
               ELSE /\ opt' = [opt EXCEPT ![p] = NextOpt(@, next)]
                    /\ UNCHANGED <<pc, result, idx>>
    /\ UNCHANGED <<GithubToken, BackupFolder, username, originalWd, cwd,
                   exists, remote>>

\* the request answered by the API with an error, or with a page and the
\* NextPage it signals
ListUserRepositories(p) ==
    \E ok \in BOOLEAN, e \in ErrMsgs,
       repos \in Pages(MaxRepos - Len(allRepos[p])), next \in NextPageOf(opt[p].Page) :
       /\ ok => e = CHOOSE m \in ErrMsgs : TRUE
       /\ ~ok => CanFail(p)
       /\ ~ok => repos = << >> /\ next = 0
       /\ Listed(p, ok, e, repos, next)

(***************************************************************************)
(* The repository loop, lines 128-214.                                     *)
(***************************************************************************)
\* what os.Stat may answer for a path
StatResults(path) == IF path \in exists THEN {"ok", "error"} ELSE {"notexist", "error"}

\* every error of Stat but "not exists" is taken for an existing backup
StatBranch_UpdateOnError(p, res) ==
    IF res = "notexist" THEN Goto(p, "clone") /\ UNCHANGED <<idx, result>>
    ELSE Goto(p, "u_getwd") /\ UNCHANGED <<idx, result>>

\* every error of Stat is taken for a missing backup (err != nil)
StatBranch_CloneOnAnyError(p, res) ==
    IF res = "ok" THEN Goto(p, "u_getwd") /\ UNCHANGED <<idx, result>>
    ELSE Goto(p, "clone") /\ UNCHANGED <<idx, result>>

\* an error of Stat other than "not exists" ends the run with an error
StatBranch_Fatal(p, res) ==
    IF res = "notexist" THEN Goto(p, "clone") /\ UNCHANGED <<idx, result>>
    ELSE IF res = "ok" THEN Goto(p, "u_getwd") /\ UNCHANGED <<idx, result>>
    ELSE /\ Return(p, Errorf(<<"Error checking backup status for ">> \o repoFullName(p)))
         /\ UNCHANGED idx

\* lines 137, 169, 209: the branch taken on the answer of Stat
StatBranch(p, res) ==
    IF res = "notexist" THEN Goto(p, "clone") /\ UNCHANGED <<idx, result>>
    ELSE IF res = "ok" THEN Goto(p, "u_getwd") /\ UNCHANGED <<idx, result>>
    ELSE Continue(p)

\* lines 129-137 (and 209-212)
Stat(p) ==
    /\ pc[p] = "stat"
    /\ \E res \in StatResults(curPath(p)) :
          /\ res = "error" => CanFail(p)
          /\ Call(p, Event("Stat", idx[p], EmptyStr, <<curPath(p)>>, res))
          /\ StatBranch(p, res)
    /\ UNCHANGED <<GithubToken, BackupFolder, username, opt, allRepos,
                   originalWd, cwd, exists, remote>>

\* the failure of the clone is logged and the clone path goes on
CloneFailed_GoOn(p) ==
    /\ Goto(p, "c_getwd")
    /\ UNCHANGED <<idx, result>>

\* a failed clone ends the run with an error
CloneFailed_Fatal(p) ==
    /\ Return(p, Errorf(<<"Error cloning repository ">> \o repoFullName(p)))
    /\ UNCHANGED idx

\* lines 140-141: the clone failed
CloneFailed(p) == Continue(p)

\* lines 138-142.  A successful clone creates the mirror with the URL it was
\* given as its remote; a failed one may leave a partial directory behind.
Clone(p) ==
    /\ pc[p] = "clone"
    /\ \E ok \in BOOLEAN, left \in BOOLEAN :
          /\ ok => left /\ curPath(p) \notin exists
          /\ ~ok => CanFail(p)
          /\ Call(p, Event("RunAndOutput", idx[p], EmptyStr,
                           CloneArgs(authURL(p), curPath(p)), Res(ok)))
          /\ exists' = IF left THEN exists \cup {curPath(p)} ELSE exists
          /\ IF ok
             THEN /\ WriteRemote(curPath(p), authURL(p))
                  /\ Goto(p, "c_getwd")
                  /\ UNCHANGED <<idx, result>>
             ELSE /\ CloneFailed(p)
                  /\ UNCHANGED remote
    /\ UNCHANGED <<GithubToken, BackupFolder, username, opt, allRepos,
                   originalWd, cwd>>

\* the failure of Getwd is logged and the path goes on
Getwd_GoOn(p, at, next) ==
    /\ pc[p] = at
    /\ \E ok \in BOOLEAN :
          /\ ~ok => CanFail(p)
          /\ Call(p, GetwdEvent(idx[p], ok, cwd[p]))
          /\ originalWd' = [originalWd EXCEPT ![p] = IF ok THEN cwd[p] ELSE EmptyStr]
          /\ Goto(p, next)
    /\ UNCHANGED <<GithubToken, BackupFolder, username, opt, allRepos, idx,
                   result, cwd, exists, remote>>

\* lines 144-148 (next = "c_chdir") and 171-175 (next = "u_chdir")
Getwd(p, at, next) ==
    /\ pc[p] = at
    /\ \E ok \in BOOLEAN :
          /\ ~ok => CanFail(p)
          /\ Call(p, GetwdEvent(idx[p], ok, cwd[p]))
          /\ IF ok
             THEN /\ originalWd' = [originalWd EXCEPT ![p] = cwd[p]]
                  /\ Goto(p, next)
                  /\ UNCHANGED <<idx, result>>
             ELSE /\ Continue(p)
                  /\ UNCHANGED originalWd
    /\ UNCHANGED <<GithubToken, BackupFolder, username, opt, allRepos,
                   cwd, exists, remote>>

CloneGetwd(p) == Getwd(p, "c_getwd", "c_chdir")

UpdateGetwd(p) == Getwd(p, "u_getwd", "u_chdir")

\* lines 149-152 (next = "c_lfs") and 176-179 (next = "u_setauth")
ChdirInto(p, at, next) ==
    /\ pc[p] = at
    /\ \E ok \in BOOLEAN :
          /\ ~ok => CanFail(p)
          /\ Call(p, Event("Chdir", idx[p], EmptyStr, <<curPath(p)>>, Res(ok)))
          /\ IF ok
             THEN /\ cwd' = [cwd EXCEPT ![p] = curPath(p)]
                  /\ Goto(p, next)
                  /\ UNCHANGED <<idx, result>>
             ELSE /\ Continue(p)
                  /\ UNCHANGED cwd
    /\ UNCHANGED <<GithubToken, BackupFolder, username, opt, allRepos,
                   originalWd, exists, remote>>

CloneChdir(p) == ChdirInto(p, "c_chdir", "c_lfs")

UpdateChdir(p) == ChdirInto(p, "u_chdir", "u_setauth")

\* the failure of set-url is logged and the update goes on
SetUrlAuthFailed_Ignore(p) ==
    /\ Goto(p, "u_update")
    /\ UNCHANGED <<idx, result>>

\* lines 182-188: on failure the directory is restored before continue
SetUrlAuthFailed(p) ==
    /\ Goto(p, "u_authfail_back")
    /\ UNCHANGED <<idx, result>>

\* lines 181-188
UpdateSetUrlAuth(p) ==
    /\ pc[p] = "u_setauth"
    /\ \E ok \in BOOLEAN :
          /\ ~ok => CanFail(p)
          /\ Call(p, Event("Run", idx[p], curPath(p), SetUrlArgs(authURL(p)), Res(ok)))
          /\ IF ok
             THEN /\ WriteRemote(curPath(p), authURL(p))
                  /\ Goto(p, "u_update")
                  /\ UNCHANGED <<idx, result>>
             ELSE /\ SetUrlAuthFailed(p)
                  /\ UNCHANGED remote
    /\ UNCHANGED <<GithubToken, BackupFolder, username, opt, allRepos,
                   originalWd, cwd, exists>>

\* a transfer command that never returns
Transfer_NeverReturns(p, at, args, next) ==
    /\ pc[p] = at
    /\ UNCHANGED vars

\* a transfer command whose failure is logged and otherwise ignored:
\* lines 190-194 (remote update), 154-158 and 196-199 (lfs fetch)
Transfer(p, at, args, next) ==
    /\ pc[p] = at
    /\ \E ok \in BOOLEAN :
          /\ ~ok => CanFail(p)
          /\ Call(p, TransferEvent(idx[p], curPath(p), args, ok, remote[curPath(p)]))
    /\ Goto(p, next)
    /\ UNCHANGED <<GithubToken, BackupFolder, username, opt, allRepos, idx,
                   originalWd, cwd, result, exists, remote>>

\* the update path fetches the LFS objects before the remote update
UpdateRemoteUpdate_LfsFirst(p) == Transfer(p, "u_update", LfsArgs, "u_lfs")

UpdateRemoteUpdate(p) == Transfer(p, "u_update", UpdateArgs, "u_lfs")

\* the clone path goes on to set-url without fetching the LFS objects
CloneLfsFetch_Skipped(p) ==
    /\ pc[p] = "c_lfs"
    /\ Goto(p, "c_setunauth")
    /\ UNCHANGED <<GithubToken, BackupFolder, username, opt, allRepos, idx,
                   originalWd, cwd, result, trace, exists, remote>>

CloneLfsFetch(p) == Transfer(p, "c_lfs", LfsArgs, "c_setunauth")

\* a failed lfs fetch ends the work on the entry
UpdateLfsFetch_AbortOnError(p) ==
    /\ pc[p] = "u_lfs"
    /\ \E ok \in BOOLEAN :
          /\ ~ok => CanFail(p)
          /\ Call(p, TransferEvent(idx[p], curPath(p), LfsArgs, ok, remote[curPath(p)]))
          /\ IF ok
             THEN Goto(p, "u_setunauth") /\ UNCHANGED <<idx, result>>
             ELSE Continue(p)
    /\ UNCHANGED <<GithubToken, BackupFolder, username, opt, allRepos,
                   originalWd, cwd, exists, remote>>

UpdateLfsFetch(p) == Transfer(p, "u_lfs", LfsArgs, "u_setunauth")

\* lines 160-163 (next = "c_back") and 201-204 (next = "u_back")
SetUrlUnauth(p, at, next) ==
    /\ pc[p] = at
    /\ \E ok \in BOOLEAN :
          /\ ~ok => CanFail(p)
          /\ Call(p, Event("Run", idx[p], curPath(p), SetUrlArgs(unauthURL(p)), Res(ok)))
          /\ IF ok
             THEN WriteRemote(curPath(p), unauthURL(p))
             ELSE UNCHANGED remote
    /\ Goto(p, next)
    /\ UNCHANGED <<GithubToken, BackupFolder, username, opt, allRepos, idx,
                   originalWd, cwd, result, exists>>

CloneSetUrlUnauth(p) == SetUrlUnauth(p, "c_setunauth", "c_back")

UpdateSetUrlUnauth(p) == SetUrlUnauth(p, "u_setunauth", "u_back")

\* lines 165-167, 184-187 and 206-208: the restoring Chdir; its failure is
\* logged and the loop goes on to the next entry either way
ChdirBack(p, at) ==
    /\ pc[p] = at
    /\ \E ok \in BOOLEAN :
          /\ ~ok => CanFail(p)
          /\ Call(p, Event("Chdir", idx[p], EmptyStr, <<originalWd[p]>>, Res(ok)))
          /\ cwd' = [cwd EXCEPT ![p] = IF ok THEN originalWd[p] ELSE @]
    /\ Continue(p)
    /\ UNCHANGED <<GithubToken, BackupFolder, username, opt, allRepos,
                   originalWd, exists, remote>>

CloneChdirBack(p) == ChdirBack(p, "c_back")

UpdateChdirBack(p) == ChdirBack(p, "u_back")

\* the failure branch of set-url goes on without restoring the directory
AuthFailChdirBack_Skipped(p) ==
    /\ pc[p] = "u_authfail_back"
    /\ Continue(p)
    /\ UNCHANGED <<GithubToken, BackupFolder, username, opt, allRepos,
                   originalWd, cwd, trace, exists, remote>>

AuthFailChdirBack(p) == ChdirBack(p, "u_authfail_back")

(***************************************************************************)
(* The specification.                                                      *)
(***************************************************************************)
\* a step of runApp other than a listing request
Step(p) ==
    \/ Start(p)
    \/ MkdirAll(p)
    \/ GitConfig(p)
    \/ GetAuthenticatedUser(p)
    \/ Stat(p)
    \/ Clone(p)
    \/ CloneGetwd(p)
    \/ CloneChdir(p)
    \/ CloneLfsFetch(p)
    \/ CloneSetUrlUnauth(p)
    \/ CloneChdirBack(p)
    \/ UpdateGetwd(p)
    \/ UpdateChdir(p)
    \/ UpdateSetUrlAuth(p)
    \/ AuthFailChdirBack(p)
    \/ UpdateRemoteUpdate(p)
    \/ UpdateLfsFetch(p)
    \/ UpdateSetUrlUnauth(p)
    \/ UpdateChdirBack(p)

Next ==
    \E p \in Procs :
        \/ ListUserRepositories(p)
        \/ Step(p)

Spec == Init /\ [][Next]_vars

\* a run with the backup folder left blank
InitDefaultFolder == Init /\ BackupFolder[1] = EmptyStr

(***************************************************************************)
(* A second run of the program on the same backup folder, with the same    *)
(* token, as a scheduler starts it: a new process, whose fields and        *)
(* working directory are those of a process just constructed.  The API     *)
(* answers its requests as it answered those of the first run, which got   *)
(* the whole listing in one page.                                          *)
(***************************************************************************)
ListUserRepositoriesOnePage(p) ==
    \E repos \in Pages(MaxRepos - Len(allRepos[p])) :
        Listed(p, TRUE, CHOOSE m \in ErrMsgs : TRUE, repos, 0)

ListUserRepositoriesAsBefore(p) ==
    \E q \in Procs \ {p} : \E k \in 1..Len(trace[q]) :
        /\ trace[q][k].op = "ListUserRepositories"
        /\ trace[q][k].opt = opt[p]
        /\ Listed(p, trace[q][k].res = "ok", trace[q][k].err,
                  trace[q][k].repos, trace[q][k].next)

\* the next run starts in the directory in which the run before it ended
RunAgain_KeepsDirectory(q) ==
    /\ pc[q] = "off"
    /\ \A p \in Procs \ {q} : pc[p] = "done"
    /\ pc' = [pc EXCEPT ![q] = "start"]
    /\ cwd' = [cwd EXCEPT ![q] = cwd[CHOOSE p \in Procs : p # q]]
    /\ UNCHANGED <<GithubToken, BackupFolder, username, opt, allRepos, idx,
                   originalWd, result, trace, exists, remote>>

\* the next scheduled run starts when the run before it has returned
RunAgain(q) ==
    /\ pc[q] = "off"
    /\ \A p \in Procs \ {q} : pc[p] = "done"
    /\ pc' = [pc EXCEPT ![q] = "start"]
    /\ UNCHANGED <<GithubToken, BackupFolder, username, opt, allRepos, idx,
                   originalWd, cwd, result, trace, exists, remote>>

\* the account has one repository, listed in one page
ListUserRepositoriesSingle(p) ==
    Listed(p, TRUE, CHOOSE m \in ErrMsgs : TRUE, <<OldRepo>>, 0)

\* a run is started while the run before it has not returned
RunBeside(q) ==
    /\ pc[q] = "off"
    /\ \E p \in Procs \ {q} : pc[p] \notin {"off", "done"}
    /\ pc' = [pc EXCEPT ![q] = "start"]
    /\ UNCHANGED <<GithubToken, BackupFolder, username, opt, allRepos, idx,
                   originalWd, cwd, result, trace, exists, remote>>

NextPair ==
    \/ ListUserRepositoriesSingle(1)
    \/ ListUserRepositoriesAsBefore(2)
    \/ RunBeside(2)
    \/ \E p \in Procs : Step(p)

SpecPair == InitDefaultFolder /\ [][NextPair]_vars

NextRuns ==
    \/ ListUserRepositoriesOnePage(1)
    \/ ListUserRepositoriesAsBefore(2)
    \/ RunAgain(2)
    \/ \E p \in Procs : Step(p)

SpecRuns == InitDefaultFolder /\ [][NextRuns]_vars

\* runApp is sequential code and every call of Next returns: a step that
\* can be taken is taken
SpecFair == InitDefaultFolder /\ [][Next]_vars /\ WF_vars(Next)

(***************************************************************************)
(* The listing against an API that does not end it.  The loop of lines     *)
(* 114-124 has no exit but an error or a response with NextPage 0; here    *)
(* the API may answer any request, without error, with an empty page and a *)
(* NextPage that is not 0, going to and fro between two pages.  The        *)
(* history keeps one record of each distinct request and response, so a    *)
(* listing that repeats itself has finitely many states.                   *)
(***************************************************************************)
UnendingPages == {2, 5}

\* the NextPage such an API signals in answer to a request for page
UnendingNextPageOf(page) == {n \in UnendingPages : n # page /\ (page = 0 => n = 2)}

CallOnce(p, ev) ==
    trace' = [trace EXCEPT ![p] =
                 IF \E k \in 1..Len(@) : @[k] = ev THEN @ ELSE Append(@, ev)]

ListUserRepositoriesUnending(p) ==
    /\ pc[p] = "list"
    /\ \E next \in UnendingNextPageOf(opt[p].Page) :
          /\ CallOnce(p, ListEvent(opt[p], TRUE, CHOOSE m \in ErrMsgs : TRUE, << >>, next))
          /\ opt' = [opt EXCEPT ![p] = NextOpt(@, next)]
    /\ UNCHANGED <<pc, GithubToken, BackupFolder, username, allRepos, idx,
                   originalWd, cwd, result, exists, remote>>

NextApi == Next \/ \E p \in Procs : ListUserRepositoriesUnending(p)

\* runApp is sequential code that runs on: a step that can be taken is taken
SpecApi == Init /\ [][NextApi]_vars /\ WF_vars(NextApi)

(***************************************************************************)
(* Reading the trace.                                                      *)
(***************************************************************************)
Map(f(_), s) == [i \in 1..Len(s) |-> f(s[i])]

IsCmd(e) == e.op \in CmdOps

IsConfig(e) == IsCmd(e) /\ e.args[2] = Str("config")

IsClone(e) == IsCmd(e) /\ e.args[2] = Str("clone")

\* a call that belongs to the repository loop
IsRepoCall(e) == e.op \in {"Stat", "Getwd", "Chdir"} \/ (IsCmd(e) /\ ~IsConfig(e))

\* the calls made for entry i of the listing, in order
EventsOf(p, i) == SelectSeq(trace[p], LAMBDA e : e.repo = i)

\* a command as a recording CommandRunner sees it
CmdView(e) == [dir |-> e.dir, args |-> e.args]

Cmd(dir, args) == [dir |-> dir, args |-> args]

\* the commands of a sequence of calls
CmdsIn(s) == Map(CmdView, SelectSeq(s, IsCmd))

\* entry i has been processed to its end
Finished(p, i) == i < idx[p]

\* the run is between two entries of the listing, or over
BetweenRepos(p) == pc[p] \in {"stat", "done"}

\* every call made for entry i succeeded (Stat reporting a missing path is
\* the success that selects the clone path)
AllOk(p, i) == \A k \in 1..Len(trace[p]) :
    trace[p][k].repo = i => trace[p][k].res \in {"ok", "notexist"}

StatResultOf(p, i) == (CHOOSE k \in 1..Len(trace[p]) :
    trace[p][k].repo = i /\ trace[p][k].op = "Stat")

\* the words of the commands, as the claims state them
WordsClone(url, path) ==
    <<Str("git"), Str("clone"), Str("--mirror"), Str("--no-checkout"), Str("--progress"),
      url, path>>

WordsConfig ==
    <<Str("git"), Str("config"), Str("--global"), Str("--add"), Str("safe.directory"),
      Str("*")>>

WordsLfs == <<Str("git"), Str("lfs"), Str("fetch"), Str("--all")>>

WordsUpdate == <<Str("git"), Str("remote"), Str("update")>>

WordsSetUrl(url) == <<Str("git"), Str("remote"), Str("set-url"), Str("origin"), url>>

\* the full command sequence of a repository on the clone path and on the
\* update path
FullCloneSequence(auth, unauth, path) ==
    <<Cmd(EmptyStr, WordsClone(auth, path)),
      Cmd(path, WordsLfs),
      Cmd(path, WordsSetUrl(unauth))>>

FullUpdateSequence(auth, unauth, path) ==
    <<Cmd(path, WordsSetUrl(auth)),
      Cmd(path, WordsUpdate),
      Cmd(path, WordsLfs),
      Cmd(path, WordsSetUrl(unauth))>>

AuthOf(p, i) == authenticatedCloneURL(username[p], GithubToken[p], allRepos[p][i])

UnauthOf(p, i) == unauthenticatedCloneURL(allRepos[p][i])

PathOf(p, i) == backupPath(BackupFolder[p], allRepos[p][i])

(***************************************************************************)
(* C1.  Whenever the run is between two repositories or over, the remote   *)
(* URL stored in the mirror of every repository processed so far does not  *)
(* contain the token.                                                      *)
(* The code leaves the authenticated URL in the mirror when Getwd or Chdir *)
(* fails after a successful clone, and when the final set-url fails.       *)
(***************************************************************************)
C1_NoTokenAtRest ==
    \A p \in Procs : \A i \in 1..Len(allRepos[p]) :
        (BetweenRepos(p) /\ Finished(p, i))
            => ~Contains(remote[PathOf(p, i)], GithubToken[p])

(***************************************************************************)
(* C2.  If the clone of entry i failed, then the entry after it is still   *)
(* processed after that clone, and when its own calls all succeed its      *)
(* commands are the full sequence of its path; the run returns nil.        *)
(***************************************************************************)
CloneFailedAt(p, i) == \E k \in 1..Len(trace[p]) :
    /\ trace[p][k].repo = i
    /\ IsClone(trace[p][k])
    /\ trace[p][k].res = "error"

C2_NextRepoAfterCloneError ==
    \A p \in Procs : \A i \in 1..(Len(allRepos[p]) - 1) :
        CloneFailedAt(p, i) =>
            /\ pc[p] = "done" => result[p] = Nil /\ Finished(p, i + 1)
            /\ Finished(p, i + 1) =>
                  /\ \E k \in 1..Len(trace[p]) :
                        trace[p][k].repo = i + 1 /\ trace[p][k].op = "Stat"
                  /\ \A k, m \in 1..Len(trace[p]) :
                        (trace[p][k].repo = i /\ trace[p][m].repo = i + 1) => k < m
            /\ (Finished(p, i + 1) /\ AllOk(p, i + 1)) =>
                  CmdsIn(EventsOf(p, i + 1)) =
                      IF trace[p][StatResultOf(p, i + 1)].res = "notexist"
                      THEN FullCloneSequence(AuthOf(p, i + 1), UnauthOf(p, i + 1),
                                             PathOf(p, i + 1))
                      ELSE FullUpdateSequence(AuthOf(p, i + 1), UnauthOf(p, i + 1),
                                              PathOf(p, i + 1))

C2_Witness ==
    \E p \in Procs :
        /\ pc[p] = "done"
        /\ Len(allRepos[p]) = 2
        /\ CloneFailedAt(p, 1)
        /\ AllOk(p, 2)
        /\ Len(CmdsIn(EventsOf(p, 2))) = 3

(***************************************************************************)
(* C3.  runApp returns an error exactly when a run-wide fatal condition    *)
(* occurred: the token is empty, or MkdirAll, the global git config,       *)
(* GetAuthenticatedUser or a ListUserRepositories request failed.          *)
(***************************************************************************)
FatalCondition(p) ==
    \/ GithubToken[p] = EmptyStr
    \/ \E k \in 1..Len(trace[p]) :
          /\ trace[p][k].res = "error"
          /\ \/ trace[p][k].op \in {"MkdirAll", "GetAuthenticatedUser", "ListUserRepositories"}
             \/ IsConfig(trace[p][k])

RepoFailure(p) ==
    \E k \in 1..Len(trace[p]) : trace[p][k].repo >= 1 /\ trace[p][k].res = "error"

C3_ErrorIffFatal ==
    \A p \in Procs :
        /\ pc[p] = "done" => (result[p].state = "error" <=> FatalCondition(p))
        /\ pc[p] = "done" => result[p].state \in {"error", "nil"}
        /\ pc[p] # "done" => result[p] = Running

C3_Witness ==
    \E p \in Procs :
        /\ pc[p] = "done"
        /\ result[p] = Nil
        /\ RepoFailure(p)
        /\ \E k \in 1..Len(trace[p]) : trace[p][k].op = "Stat" /\ trace[p][k].res = "error"

(***************************************************************************)
(* C4.  A finished run whose listing is one repository with a missing      *)
(* backup path, every call succeeding, issued exactly the commands global  *)
(* config, clone (both with empty dir), lfs fetch and set-url to the       *)
(* unauthenticated URL (both in the backup path), in this order.           *)
(***************************************************************************)
EveryCallOk(p) == \A k \in 1..Len(trace[p]) : trace[p][k].res \in {"ok", "notexist"}

SingleRepoRun(p, statres) ==
    /\ pc[p] = "done"
    /\ Len(allRepos[p]) = 1
    /\ EveryCallOk(p)
    /\ \E k \in 1..Len(trace[p]) : trace[p][k].op = "Stat" /\ trace[p][k].res = statres

C4_ClonePathCommands ==
    \A p \in Procs :
        SingleRepoRun(p, "notexist") =>
            CmdsIn(trace[p]) =
                <<Cmd(EmptyStr, WordsConfig)>>
                    \o FullCloneSequence(AuthOf(p, 1), UnauthOf(p, 1), PathOf(p, 1))

C4_Witness == \E p \in Procs : SingleRepoRun(p, "notexist")

(***************************************************************************)
(* C5.  A finished run whose listing is one repository with an existing    *)
(* backup path, every call succeeding, issued exactly the commands global  *)
(* config (empty dir), then in the backup path set-url to the              *)
(* authenticated URL, remote update, lfs fetch, set-url to the             *)
(* unauthenticated URL, in this order; no clone.                           *)
(***************************************************************************)
C5_UpdatePathCommands ==
    \A p \in Procs :
        SingleRepoRun(p, "ok") =>
            /\ CmdsIn(trace[p]) =
                  <<Cmd(EmptyStr, WordsConfig)>>
                      \o FullUpdateSequence(AuthOf(p, 1), UnauthOf(p, 1), PathOf(p, 1))
            /\ \A k \in 1..Len(trace[p]) : ~IsClone(trace[p][k])

C5_Witness == \E p \in Procs : SingleRepoRun(p, "ok")

(***************************************************************************)
(* C6.  A run with an empty token makes no call at all (no API call, no    *)
(* filesystem call, no command) and returns an error that mentions         *)
(* GITHUB_SECRET.                                                          *)
(***************************************************************************)
C6_EmptyToken ==
    \A p \in Procs :
        GithubToken[p] = EmptyStr =>
            /\ trace[p] = << >>
            /\ pc[p] \in {"off", "start", "done"}
            /\ pc[p] = "done" =>
                  /\ result[p].state = "error"
                  /\ Contains(result[p].msg, Str("GITHUB_SECRET"))

C6_Witness == \E p \in Procs : pc[p] = "done" /\ GithubToken[p] = EmptyStr

(***************************************************************************)
(* C7.  If GetAuthenticatedUser failed, the run is over with an error      *)
(* that contains the message of that failure, ListUserRepositories was     *)
(* not called and no call of the repository loop was made.                 *)
(***************************************************************************)
FailedCall(p, k, op) == trace[p][k].op = op /\ trace[p][k].res = "error"

NoRepoCall(p) == \A k \in 1..Len(trace[p]) : ~IsRepoCall(trace[p][k])

C7_UserError ==
    \A p \in Procs : \A k \in 1..Len(trace[p]) :
        FailedCall(p, k, "GetAuthenticatedUser") =>
            /\ pc[p] = "done"
            /\ result[p].state = "error"
            /\ Contains(result[p].msg, trace[p][k].err)
            /\ \A m \in 1..Len(trace[p]) : trace[p][m].op # "ListUserRepositories"
            /\ NoRepoCall(p)

C7_Witness ==
    \E p \in Procs : \E k \in 1..Len(trace[p]) :
        FailedCall(p, k, "GetAuthenticatedUser") /\ trace[p][k].err = Str("e2")

(***************************************************************************)
(* C8.  If a ListUserRepositories request failed, on the first page or a   *)
(* later one, the run is over with an error that contains the message of   *)
(* that failure and no call of the repository loop was made, also not for  *)
(* the repositories of the pages fetched before.                           *)
(***************************************************************************)
C8_ListError ==
    \A p \in Procs : \A k \in 1..Len(trace[p]) :
        FailedCall(p, k, "ListUserRepositories") =>
            /\ pc[p] = "done"
            /\ result[p].state = "error"
            /\ Contains(result[p].msg, trace[p][k].err)
            /\ NoRepoCall(p)

C8_Witness ==
    \E p \in Procs : \E k \in 1..Len(trace[p]) :
        /\ FailedCall(p, k, "ListUserRepositories")
        /\ k > 1
        /\ trace[p][k - 1].op = "ListUserRepositories"
        /\ Len(allRepos[p]) >= 1

(***************************************************************************)
(* C9.  The setup stages run in the order token check, MkdirAll, global    *)
(* git config, GetAuthenticatedUser, ListUserRepositories, then the        *)
(* repository loop; none is skipped or repeated (but the listing           *)
(* requests), and a failed setup call is the last call of the run, which   *)
(* returns an error containing the message of the failure.                 *)
(***************************************************************************)
Stage(e) ==
    IF e.op = "MkdirAll" THEN 1
    ELSE IF IsCmd(e) /\ e.args = WordsConfig THEN 2
    ELSE IF e.op = "GetAuthenticatedUser" THEN 3
    ELSE IF e.op = "ListUserRepositories" THEN 4
    ELSE 5

C9_SetupOrder ==
    \A p \in Procs :
        /\ GithubToken[p] = EmptyStr => trace[p] = << >>
        /\ Len(trace[p]) >= 1 => Stage(trace[p][1]) = 1
        /\ \A k \in 2..Len(trace[p]) :
              LET a == Stage(trace[p][k - 1])
                  b == Stage(trace[p][k])
              IN  IF a >= 4 THEN b = a \/ b = a + 1 ELSE b = a + 1
        /\ \A k \in 1..Len(trace[p]) :
              (Stage(trace[p][k]) <= 4 /\ trace[p][k].res = "error") =>
                  /\ k = Len(trace[p])
                  /\ pc[p] = "done"
                  /\ result[p].state = "error"
                  /\ Contains(result[p].msg, trace[p][k].err)

C9_Witness ==
    \E p \in Procs :
        /\ Len(trace[p]) = 2
        /\ Stage(trace[p][2]) = 2
        /\ trace[p][2].res = "error"
        /\ pc[p] = "done"

(***************************************************************************)
(* C10.  The global configuration command is issued at most once, it is    *)
(* the first command and comes before every Stat; a run that reached the   *)
(* repository loop has issued it exactly once, with success.               *)
(***************************************************************************)
ConfigCalls(p) == {k \in 1..Len(trace[p]) : IsCmd(trace[p][k]) /\ trace[p][k].args = WordsConfig}

ReachedLoop(p) ==
    \/ pc[p] \notin {"off", "start", "mkdir", "config", "user", "list", "done"}
    \/ pc[p] = "done" /\ result[p] = Nil

C10_ConfigOnce ==
    \A p \in Procs :
        LET calls == ConfigCalls(p)
        IN  /\ Cardinality(calls) <= 1
            /\ \A c \in calls : \A k \in 1..Len(trace[p]) :
                  (IsCmd(trace[p][k]) \/ IsRepoCall(trace[p][k])) => c <= k
            /\ \A k \in 1..Len(trace[p]) :
                  IsRepoCall(trace[p][k]) => \E c \in calls : c < k
            /\ ReachedLoop(p) =>
                  /\ Cardinality(calls) = 1
                  /\ \A c \in calls : trace[p][c].res = "ok"

C10_Witness ==
    \E p \in Procs :
        /\ pc[p] = "done"
        /\ Len(allRepos[p]) = 2
        /\ Cardinality({k \in 1..Len(trace[p]) : trace[p][k].op = "Stat"}) = 2
        /\ Cardinality(ConfigCalls(p)) = 1

(***************************************************************************)
(* C11.  For every entry of the listing the first call is the Stat of its  *)
(* backup path, made once, and it alone selects the path: a clone is       *)
(* issued exactly when Stat reported "not exists", the update sequence     *)
(* (Getwd, Chdir, set-url to the authenticated URL, remote update) only    *)
(* when Stat succeeded, nothing when Stat failed otherwise; no entry gets  *)
(* both a clone and a remote update.                                       *)
(***************************************************************************)
IsUpdate(e) == IsCmd(e) /\ e.args = WordsUpdate

IsLfs(e) == IsCmd(e) /\ e.args = WordsLfs

IsSetUrl(e, url) == IsCmd(e) /\ e.args = WordsSetUrl(url)

Has(s, Test(_)) == \E k \in 1..Len(s) : Test(s[k])

C11_StatSelectsPath ==
    \A p \in Procs : \A i \in 1..Len(allRepos[p]) :
        LET ev == EventsOf(p, i)
            setAuth(e) == IsSetUrl(e, AuthOf(p, i))
        IN  Len(ev) >= 1 =>
              /\ ev[1].op = "Stat"
              /\ ev[1].args = <<PathOf(p, i)>>
              /\ \A k \in 2..Len(ev) : ev[k].op # "Stat"
              /\ Has(ev, IsClone) => ev[1].res = "notexist"
              /\ (ev[1].res = "notexist" /\ Len(ev) >= 2) => IsClone(ev[2])
              /\ (ev[1].res = "notexist" /\ Finished(p, i)) => Len(ev) >= 2
              /\ (Has(ev, setAuth) \/ Has(ev, IsUpdate)) => ev[1].res = "ok"
              /\ (ev[1].res = "ok" /\ Len(ev) >= 2) => ev[2].op = "Getwd"
              /\ (ev[1].res = "ok" /\ Finished(p, i)) => Len(ev) >= 2
              /\ ev[1].res = "error" => Len(ev) = 1
              /\ ~(Has(ev, IsClone) /\ Has(ev, IsUpdate))

C11_Witness ==
    \E p \in Procs :
        /\ pc[p] = "done"
        /\ Len(allRepos[p]) = 2
        /\ Has(EventsOf(p, 1), IsClone)
        /\ Has(EventsOf(p, 2), IsUpdate)
        /\ allRepos[p][1] = allRepos[p][2]

(***************************************************************************)
(* C12.  No repository full name is processed twice in one run: the Stat   *)
(* calls of a run name pairwise distinct entries of the listing, whatever  *)
(* pages the API returned.  The listing loop appends every page as it      *)
(* arrives, so a name returned twice is processed twice.                   *)
(***************************************************************************)
StatCalls(p) == SelectSeq(trace[p], LAMBDA e : e.op = "Stat")

C12_NoDuplicateProcessing ==
    \A p \in Procs :
        LET st == StatCalls(p)
        IN  \A j, k \in 1..Len(st) :
                j # k => allRepos[p][st[j].repo] # allRepos[p][st[k].repo]

(***************************************************************************)
(* C13.  The first listing request asks for the default page with page     *)
(* size 100; every later request follows a successful response that        *)
(* signalled a further page and asks, with page size 100, for exactly that *)
(* page; once a response signals NextPage 0 no request follows, and the    *)
(* entries then processed are, in order, the concatenation of the pages    *)
(* fetched: all of them when the run returns.                              *)
(***************************************************************************)
ListCalls(p) == SelectSeq(trace[p], LAMBDA e : e.op = "ListUserRepositories")

RECURSIVE Concatenation(_)
Concatenation(responses) ==
    IF responses = << >> THEN << >>
    ELSE responses[1].repos \o Concatenation(Tail(responses))

ListingSucceeded(p) ==
    LET L == ListCalls(p)
    IN  Len(L) >= 1 /\ L[Len(L)].res = "ok" /\ L[Len(L)].next = 0

C13_Pagination ==
    \A p \in Procs :
        LET L == ListCalls(p)
            st == StatCalls(p)
            fetched == Concatenation(L)
        IN  /\ Len(L) >= 1 => L[1].opt = [Page |-> 0, PerPage |-> 100]
            /\ \A k \in 2..Len(L) :
                  /\ L[k - 1].res = "ok"
                  /\ L[k - 1].next # 0
                  /\ L[k].opt = [Page |-> L[k - 1].next, PerPage |-> 100]
            /\ pc[p] = "list" => ~ListingSucceeded(p)
            /\ st # << >> => ListingSucceeded(p)
            /\ ListingSucceeded(p) =>
                  /\ allRepos[p] = fetched
                  /\ Len(st) <= Len(fetched)
                  /\ \A k \in 1..Len(st) :
                        /\ st[k].repo = k
                        /\ st[k].args = <<backupPath(BackupFolder[p], fetched[k])>>
                  /\ pc[p] = "done" => Len(st) = Len(fetched) /\ result[p] = Nil

C13_Witness ==
    \E p \in Procs :
        LET L == ListCalls(p)
        IN  /\ pc[p] = "done"
            /\ Len(L) = 2
            /\ L[1].repos = <<OldRepo>>
            /\ L[2].repos = <<NewRepo>>
            /\ Len(StatCalls(p)) = 2

(***************************************************************************)
(* C14.  In a run with a non-empty token the token check turns a blank     *)
(* backup root into "/ghbackup" and leaves any other root as given; the    *)
(* root never changes afterwards; MkdirAll is called on exactly that root, *)
(* and every path handed to Stat, to the clone, to Chdir into a backup and *)
(* to a command as its directory lies under that root.                     *)
(***************************************************************************)
UnderRoot(path, root) ==
    IF root[Len(root)] = "/" THEN HasPrefix(path, root) /\ Len(path) > Len(root)
    ELSE HasPrefix(path, root \o <<"/">>) /\ Len(path) > Len(root) + 1

\* the first Chdir made for an entry is the one into its backup
EntersBackup(s, k) ==
    /\ s[k].op = "Chdir"
    /\ \A j \in 1..(k - 1) : ~(s[j].op = "Chdir" /\ s[j].repo = s[k].repo)

\* the backup paths named by call k of the calls s
PathsNamed(s, k) ==
    IF s[k].op = "Stat" THEN {s[k].args[1]}
    ELSE IF IsClone(s[k]) THEN {s[k].args[Len(s[k].args)]}
    ELSE IF EntersBackup(s, k) THEN {s[k].args[1]}
    ELSE IF IsCmd(s[k]) /\ ~IsConfig(s[k]) THEN {s[k].dir}
    ELSE {}

C14_DefaultRoot ==
    [][\A p \in Procs :
          /\ (pc[p] = "start" /\ GithubToken[p] # << >>) =>
                BackupFolder'[p] =
                    IF BackupFolder[p] = << >> THEN <<"/", "ghbackup">>
                    ELSE BackupFolder[p]
          /\ pc[p] # "start" => BackupFolder'[p] = BackupFolder[p]
          /\ Len(trace'[p]) > Len(trace[p]) =>
                LET e == trace'[p][Len(trace'[p])]
                IN  /\ e.op = "MkdirAll" => e.args = <<BackupFolder[p]>>
                    /\ \A path \in PathsNamed(trace'[p], Len(trace'[p])) :
                          UnderRoot(path, BackupFolder[p])]_vars

C14_Witness ==
    \E p \in Procs :
        /\ pc[p] = "done"
        /\ BackupFolder[p] = <<"/", "ghbackup">>
        /\ \E k \in 1..Len(trace[p]) :
              /\ trace[p][k].op = "MkdirAll"
              /\ trace[p][k].args = <<(<<"/", "ghbackup">>)>>
        /\ \E k \in 1..Len(trace[p]) :
              /\ IsClone(trace[p][k])
              /\ HasPrefix(trace[p][k].args[7], <<"/", "ghbackup", "/">>)

(***************************************************************************)
(* C15.  For login u, token t and full name o/r every clone and every      *)
(* set-url of the entry uses https://u:t@github.com/o/r.git as the         *)
(* authenticated URL and https://github.com/o/r.git as the unauthenticated *)
(* one, which is the former with the "u:t@" segment removed; Stat, clone,  *)
(* Chdir and the command directories use <backup-root>/o/r.git.  The       *)
(* clone gets the authenticated URL, the first set-url of the update path  *)
(* too, every other set-url the unauthenticated one.                       *)
(***************************************************************************)
ExpectedAuth(u, t, n) ==
    <<"https://">> \o u \o <<":">> \o t \o <<"@">> \o <<"github.com/">> \o n \o <<".git">>

ExpectedUnauth(n) == <<"https://">> \o <<"github.com/">> \o n \o <<".git">>

\* the URL without the pieces of "u:t@" that follow the scheme
WithoutCredentials(url, u, t) ==
    SubSeq(url, 1, 1) \o SubSeq(url, Len(u) + Len(t) + 4, Len(url))

ExpectedPath(root, n) ==
    (IF root[Len(root)] = "/" THEN SubSeq(root, 1, Len(root) - 1) ELSE root)
        \o <<"/">> \o n \o <<".git">>

IsAnySetUrl(e) == IsCmd(e) /\ Len(e.args) = 5 /\ e.args[3] = Str("set-url")

C15_UrlsAndPath ==
    \A p \in Procs : \A i \in 1..Len(allRepos[p]) :
        LET ev == EventsOf(p, i)
            n == allRepos[p][i]
            auth == ExpectedAuth(username[p], GithubToken[p], n)
            unauth == ExpectedUnauth(n)
            path == ExpectedPath(BackupFolder[p], n)
            setUrls == SelectSeq(ev, IsAnySetUrl)
        IN  /\ unauth = WithoutCredentials(auth, username[p], GithubToken[p])
            /\ \A k \in 1..Len(ev) :
                  /\ PathsNamed(ev, k) \subseteq {path}
                  /\ IsClone(ev[k]) => ev[k].args = WordsClone(auth, path)
            /\ \A k \in 1..Len(setUrls) :
                  setUrls[k].args[5] =
                      IF k = 1 /\ ~Has(ev, IsClone) THEN auth ELSE unauth

C15_Witness ==
    \E p \in Procs : \E i, j \in 1..Len(allRepos[p]) :
        /\ pc[p] = "done"
        /\ BackupFolder[p] = <<"/", "data", "/">>
        /\ Has(EventsOf(p, i), IsClone)
        /\ Len(SelectSeq(EventsOf(p, i), IsAnySetUrl)) = 1
        /\ Len(SelectSeq(EventsOf(p, j), IsAnySetUrl)) = 2

(***************************************************************************)
(* C16.  Once the listing has succeeded the calls of the run are made      *)
(* entry by entry in listing order, the k-th Stat is the Stat of entry k's *)
(* backup path, every entry the loop has left was Stat'ed, and the run     *)
(* ends only after the last entry, returning nil, whatever failed before.  *)
(***************************************************************************)
C16_EveryEntryOnce ==
    \A p \in Procs :
        LET st == StatCalls(p)
            n == Len(allRepos[p])
        IN  ListingSucceeded(p) =>
              /\ \A k \in 1..(Len(trace[p]) - 1) :
                    trace[p][k].repo <= trace[p][k + 1].repo
              /\ Len(st) <= n
              /\ \A k \in 1..Len(st) :
                    st[k].repo = k /\ st[k].args = <<PathOf(p, k)>>
              /\ \A i \in 1..n : Finished(p, i) => i <= Len(st)
              /\ pc[p] = "done" =>
                    /\ Len(st) = n
                    /\ idx[p] = n + 1
                    /\ result[p] = Nil

C16_Witness ==
    \E p \in Procs :
        /\ pc[p] = "done"
        /\ Len(allRepos[p]) = 2
        /\ \E k \in 1..Len(trace[p]) :
              trace[p][k].repo = 1 /\ trace[p][k].res = "error"
        /\ Len(StatCalls(p)) = 2

(***************************************************************************)
(* C17.  An entry has at most two Chdir calls.  The first goes into its    *)
(* backup path, right after a successful Getwd; when it fails nothing      *)
(* follows for the entry.  When it succeeds, the entry is not left before  *)
(* a second Chdir was issued, to the directory that Getwd returned, and    *)
(* that Chdir is the last call made for the entry.                         *)
(***************************************************************************)
IsChdir(e) == e.op = "Chdir"

C17_ChdirRestored ==
    \A p \in Procs : \A i \in 1..Len(allRepos[p]) :
        LET ev == EventsOf(p, i)
            ch == SelectSeq(ev, IsChdir)
            into == CHOOSE k \in 1..Len(ev) : EntersBackup(ev, k)
        IN  /\ Len(ch) <= 2
            /\ Len(ch) >= 1 =>
                  /\ ch[1].args = <<PathOf(p, i)>>
                  /\ into > 1
                  /\ ev[into - 1].op = "Getwd" /\ ev[into - 1].res = "ok"
                  /\ ch[1].res = "error" => Len(ev) = into
                  /\ (ch[1].res = "ok" /\ Finished(p, i)) => Len(ch) = 2
            /\ Len(ch) = 2 =>
                  /\ ch[1].res = "ok"
                  /\ ch[2].args = <<ev[into - 1].wd>>
                  /\ IsChdir(ev[Len(ev)])
                  /\ ev[Len(ev) - 1].op # "Chdir"

C17_Witness ==
    \E p \in Procs : \E i \in 1..Len(allRepos[p]) :
        LET ev == EventsOf(p, i)
        IN  /\ Finished(p, i)
            /\ \E k \in 1..Len(ev) : IsLfs(ev[k]) /\ ev[k].res = "error"
            /\ Len(SelectSeq(ev, IsChdir)) = 2
            /\ ev[Len(ev)].args # <<StartDir>>

(***************************************************************************)
(* C19.  A failed best-effort command skips nothing of its entry: after a  *)
(* failed remote update the calls of the entry go on with lfs fetch,       *)
(* set-url to the unauthenticated URL and the restoring Chdir; after a     *)
(* failed lfs fetch with set-url and the restoring Chdir; after a failed   *)
(* set-url to the unauthenticated URL with the restoring Chdir; and the    *)
(* entry is not left before all of them were issued.                       *)
(***************************************************************************)
IsPrefix(a, b) == Len(a) <= Len(b) /\ a = SubSeq(b, 1, Len(a))

\* what a call of entry i is, as the claims name the steps
StepOf(p, i, e) ==
    IF IsClone(e) THEN "clone"
    ELSE IF IsUpdate(e) THEN "remote update"
    ELSE IF IsLfs(e) THEN "lfs fetch"
    ELSE IF IsSetUrl(e, UnauthOf(p, i)) THEN "set-url-unauth"
    ELSE IF IsSetUrl(e, AuthOf(p, i)) THEN "set-url-auth"
    ELSE e.op

\* the steps of entry i that follow its call k
StepsAfter(p, i, k) ==
    LET ev == EventsOf(p, i)
    IN  [j \in 1..(Len(ev) - k) |-> StepOf(p, i, ev[k + j])]

\* entry i goes on after call k with exactly the steps rest
GoesOnWith(p, i, k, rest) ==
    /\ IsPrefix(StepsAfter(p, i, k), rest)
    /\ Finished(p, i) => StepsAfter(p, i, k) = rest

C19_BestEffortSteps ==
    \A p \in Procs : \A i \in 1..Len(allRepos[p]) :
        LET ev == EventsOf(p, i)
        IN  \A k \in 1..Len(ev) :
                ev[k].res = "error" =>
                  /\ StepOf(p, i, ev[k]) = "remote update" =>
                        GoesOnWith(p, i, k, <<"lfs fetch", "set-url-unauth", "Chdir">>)
                  /\ StepOf(p, i, ev[k]) = "lfs fetch" =>
                        GoesOnWith(p, i, k, <<"set-url-unauth", "Chdir">>)
                  /\ StepOf(p, i, ev[k]) = "set-url-unauth" =>
                        GoesOnWith(p, i, k, <<"Chdir">>)

Failed(e, step(_)) == step(e) /\ e.res = "error"

C19_Witness ==
    \E p \in Procs : \E i \in 1..Len(allRepos[p]) :
        LET ev == EventsOf(p, i)
        IN  /\ Finished(p, i)
            /\ \E k \in 1..(Len(ev) - 1) :
                  /\ Failed(ev[k], IsUpdate)
                  /\ Failed(ev[k + 1], IsLfs)
            /\ IsChdir(ev[Len(ev)])

(***************************************************************************)
(* C20.  When set-url to the authenticated URL fails on the update path,   *)
(* the only call that follows for the entry is one Chdir to the directory  *)
(* Getwd returned: no remote update, no lfs fetch, no set-url to the       *)
(* unauthenticated URL; and the loop then takes up the next entry.         *)
(***************************************************************************)
IsStat(e) == e.op = "Stat"

C20_SetUrlAuthFailure ==
    \A p \in Procs : \A i \in 1..Len(allRepos[p]) :
        LET ev == EventsOf(p, i)
            n == Len(allRepos[p])
        IN  \A k \in 1..Len(ev) :
                (ev[k].res = "error" /\ StepOf(p, i, ev[k]) = "set-url-auth") =>
                  /\ GoesOnWith(p, i, k, <<"Chdir">>)
                  /\ \A j \in 1..Len(ev) :
                        StepOf(p, i, ev[j]) \notin
                            {"remote update", "lfs fetch", "set-url-unauth", "clone"}
                  /\ ev[k - 2].op = "Getwd"
                  /\ Len(ev) > k => ev[k + 1].args = <<ev[k - 2].wd>>
                  /\ (Finished(p, i) /\ i < n) =>
                        \/ pc[p] = "stat" /\ idx[p] = i + 1
                        \/ Has(EventsOf(p, i + 1), IsStat)
                  /\ (Finished(p, i) /\ i = n) => pc[p] = "done" /\ result[p] = Nil

C20_Witness ==
    \E p \in Procs :
        LET setAuth(e) == IsSetUrl(e, AuthOf(p, 1))
        IN  /\ pc[p] = "done"
            /\ Len(allRepos[p]) = 2
            /\ \E k \in 1..Len(EventsOf(p, 1)) : Failed(EventsOf(p, 1)[k], setAuth)
            /\ Has(EventsOf(p, 2), IsClone)

(***************************************************************************)
(* C18.  The listing phase terminates whatever the API answers: a run that *)
(* is in the listing loop leaves it, also when no response ever signals    *)
(* NextPage 0.  The loop has no bound of its own, so against an API that   *)
(* goes on signalling further pages it goes on requesting them.            *)
(***************************************************************************)
C18_ListingTerminates ==
    \A p \in Procs : (pc[p] = "list") ~> (pc[p] # "list")

(***************************************************************************)
(* The entry that follows entry i is taken up once entry i is left, or     *)
(* the run has returned nil after the last entry.                          *)
(***************************************************************************)
NextTakenUp(p, i) ==
    IF i < Len(allRepos[p])
    THEN \/ pc[p] = "stat" /\ idx[p] = i + 1
         \/ Has(EventsOf(p, i + 1), IsStat)
    ELSE pc[p] = "done" /\ result[p] = Nil

(***************************************************************************)
(* C21.  When the clone of an entry fails, the calls made for the entry    *)
(* are its Stat and the clone and nothing else: no Getwd, no Chdir, no lfs *)
(* fetch, no set-url, and no call that would remove what the clone left.   *)
(***************************************************************************)
C21_CloneFailureSkipsRest ==
    \A p \in Procs : \A i \in 1..Len(allRepos[p]) :
        LET ev == EventsOf(p, i)
        IN  \A k \in 1..Len(ev) :
                (IsClone(ev[k]) /\ ev[k].res = "error") =>
                  /\ Len(ev) = 2
                  /\ k = 2
                  /\ IsStat(ev[1]) /\ ev[1].res = "notexist"
                  /\ ev[2].args = WordsClone(AuthOf(p, i), PathOf(p, i))
                  /\ pc[p] # "clone" => Finished(p, i)

C21_Witness ==
    \E p \in Procs :
        /\ pc[p] = "done"
        /\ Len(allRepos[p]) = 2
        /\ Len(EventsOf(p, 1)) = 2
        /\ Failed(EventsOf(p, 1)[2], IsClone)
        /\ PathOf(p, 1) \in exists
        /\ Len(EventsOf(p, 2)) > 2

(***************************************************************************)
(* C22.  When Stat fails with an error other than "not exists", the Stat   *)
(* is the only call made for the entry: no command, no Getwd, no Chdir;    *)
(* and the loop takes up the next entry.                                   *)
(***************************************************************************)
C22_StatErrorSkips ==
    \A p \in Procs : \A i \in 1..Len(allRepos[p]) :
        LET ev == EventsOf(p, i)
        IN  \A k \in 1..Len(ev) :
                (IsStat(ev[k]) /\ ev[k].res = "error") =>
                  /\ ev = <<ev[k]>>
                  /\ Finished(p, i)
                  /\ NextTakenUp(p, i)

C22_Witness ==
    \E p \in Procs :
        /\ pc[p] = "done"
        /\ Len(allRepos[p]) = 2
        /\ Len(EventsOf(p, 1)) = 1
        /\ Failed(EventsOf(p, 1)[1], IsStat)
        /\ Len(EventsOf(p, 2)) > 2

(***************************************************************************)
(* C25.  Nothing is tried twice in a run: each entry has at most one       *)
(* clone, one set-url to the authenticated URL, one remote update, one lfs *)
(* fetch and one set-url to the unauthenticated URL, whatever their        *)
(* results; GetAuthenticatedUser is called at most once; and a listing     *)
(* request that failed is the last call of the run.                        *)
(***************************************************************************)
Times(p, i, step) ==
    LET ev == EventsOf(p, i)
    IN  Cardinality({k \in 1..Len(ev) : StepOf(p, i, ev[k]) = step})

C25_NoRetries ==
    \A p \in Procs :
        /\ \A i \in 1..Len(allRepos[p]) :
              \A step \in {"clone", "set-url-auth", "remote update", "lfs fetch",
                           "set-url-unauth"} : Times(p, i, step) <= 1
        /\ Cardinality({k \in 1..Len(trace[p]) :
                           trace[p][k].op = "GetAuthenticatedUser"}) <= 1
        /\ \A k \in 1..Len(trace[p]) :
              (trace[p][k].op \in {"GetAuthenticatedUser", "ListUserRepositories"}
                  /\ trace[p][k].res = "error") => k = Len(trace[p])

C25_Witness ==
    \E p \in Procs :
        /\ pc[p] = "done"
        /\ \E i \in 1..Len(allRepos[p]) :
              /\ Times(p, i, "set-url-auth") = 1
              /\ Times(p, i, "set-url-unauth") = 1
              /\ \E k \in 1..Len(EventsOf(p, i)) : Failed(EventsOf(p, i)[k], IsUpdate)
        /\ Len(ListCalls(p)) = 2

(***************************************************************************)
(* C28.  A failed Getwd, or a failed Chdir into the backup path, is the    *)
(* last call made for its entry: on the clone path the calls before it are *)
(* the Stat and the successful clone, with no lfs fetch and no set-url; on *)
(* the update path no command is issued at all; no Chdir follows; and the  *)
(* loop takes up the next entry.                                           *)
(***************************************************************************)
C28_GetwdChdirFailure ==
    \A p \in Procs : \A i \in 1..Len(allRepos[p]) :
        LET ev == EventsOf(p, i)
        IN  \A k \in 1..Len(ev) :
                (ev[k].res = "error" /\ (ev[k].op = "Getwd" \/ EntersBackup(ev, k))) =>
                  /\ k = Len(ev)
                  /\ Finished(p, i)
                  /\ NextTakenUp(p, i)
                  /\ CmdsIn(ev) =
                        IF ev[1].res = "notexist"
                        THEN <<Cmd(<< >>, WordsClone(AuthOf(p, i), PathOf(p, i)))>>
                        ELSE << >>
                  /\ ev[1].res = "notexist" => ev[2].res = "ok"
                  /\ SelectSeq(ev, IsChdir) = IF ev[k].op = "Getwd" THEN << >> ELSE <<ev[k]>>

C28_Witness ==
    \E p \in Procs :
        /\ pc[p] = "done"
        /\ Len(allRepos[p]) = 2
        /\ Len(EventsOf(p, 1)) = 4
        /\ IsClone(EventsOf(p, 1)[2])
        /\ EventsOf(p, 1)[4].op = "Chdir" /\ EventsOf(p, 1)[4].res = "error"
        /\ Len(EventsOf(p, 2)) = 2
        /\ EventsOf(p, 2)[2].op = "Getwd" /\ EventsOf(p, 2)[2].res = "error"

(***************************************************************************)
(* C29.  Whenever the run is about to Stat an entry, and when it has       *)
(* returned, the working directory of the process is the one the run       *)
(* started in, whatever failed before.  The failure of a restoring Chdir   *)
(* is only logged, and the process then stays in the backup path.          *)
(***************************************************************************)
C29_WorkingDirectoryKept ==
    \A p \in Procs : BetweenRepos(p) => cwd[p] = StartDir

(***************************************************************************)
(* C30.  The token reaches a command only as part of the URL argument of   *)
(* the clone and of the set-url that opens the update path.  The directory *)
(* of every command and every other argument are free of it; the global    *)
(* config, remote update, lfs fetch and the set-url to the unauthenticated *)
(* URL are issued with words and a directory that are written from the     *)
(* backup root and the full name alone, so they are the same for any       *)
(* token.                                                                  *)
(***************************************************************************)
TokenFreeCommands(root, n) ==
    {Cmd(<< >>, WordsConfig),
     Cmd(ExpectedPath(root, n), WordsUpdate),
     Cmd(ExpectedPath(root, n), WordsLfs),
     Cmd(ExpectedPath(root, n), WordsSetUrl(ExpectedUnauth(n)))}

C30_TokenOnlyInAuthUrl ==
    \A p \in Procs : \A k \in 1..Len(trace[p]) :
        LET e == trace[p][k]
            t == GithubToken[p]
            i == e.repo
            opensUpdate ==
                /\ IsAnySetUrl(e)
                /\ i >= 1
                /\ EventsOf(p, i)[1].res = "ok"
                /\ \A j \in 1..(k - 1) : ~(trace[p][j].repo = i /\ IsCmd(trace[p][j]))
        IN  IsCmd(e) =>
              /\ ~Contains(e.dir, t)
              /\ \A j \in 1..Len(e.args) :
                    Contains(e.args[j], t) =>
                        \/ IsClone(e) /\ j = 6
                        \/ opensUpdate /\ j = 5
              /\ ~(IsClone(e) \/ opensUpdate) =>
                    CmdView(e) \in
                        TokenFreeCommands(BackupFolder[p],
                                          IF i >= 1 THEN allRepos[p][i] ELSE << >>)

C30_Witness ==
    \E p \in Procs : \E i, j \in 1..Len(allRepos[p]) :
        /\ pc[p] = "done"
        /\ GithubToken[p] = <<"s3cret">>
        /\ Len(CmdsIn(EventsOf(p, i))) = 4
        /\ Len(CmdsIn(EventsOf(p, j))) = 3

(***************************************************************************)
(* C26.  What is issued for an entry is a function of the entry alone: the *)
(* steps are fixed by the results of the entry's own calls (the answer of  *)
(* Stat, then the results of its commands, Getwd and Chdir), and each      *)
(* command is written from the entry's full name, the login, the token and *)
(* the backup root.  Neither the position of the entry in the listing nor  *)
(* any other entry enters, so a permuted listing yields the same command   *)
(* sequences, permuted.                                                    *)
(***************************************************************************)
ClonePathSteps ==
    <<"Stat", "clone", "Getwd", "Chdir", "lfs fetch", "set-url-unauth", "Chdir">>

UpdatePathSteps ==
    <<"Stat", "Getwd", "Chdir", "set-url-auth", "remote update", "lfs fetch",
      "set-url-unauth", "Chdir">>

FailedAt(r, k) == k <= Len(r) /\ r[k] = "error"

\* the steps of an entry whose calls had the results r, in order
ExpectedSteps(r) ==
    IF r[1] = "error" THEN <<"Stat">>
    ELSE IF r[1] = "notexist"
    THEN IF FailedAt(r, 2) THEN SubSeq(ClonePathSteps, 1, 2)
         ELSE IF FailedAt(r, 3) THEN SubSeq(ClonePathSteps, 1, 3)
         ELSE IF FailedAt(r, 4) THEN SubSeq(ClonePathSteps, 1, 4)
         ELSE ClonePathSteps
    ELSE IF FailedAt(r, 2) THEN SubSeq(UpdatePathSteps, 1, 2)
         ELSE IF FailedAt(r, 3) THEN SubSeq(UpdatePathSteps, 1, 3)
         ELSE IF FailedAt(r, 4) THEN SubSeq(UpdatePathSteps, 1, 4) \o <<"Chdir">>
         ELSE UpdatePathSteps

\* the command of a step, for full name n
CommandOf(step, u, t, root, n) ==
    IF step = "clone"
    THEN Cmd(<< >>, WordsClone(ExpectedAuth(u, t, n), ExpectedPath(root, n)))
    ELSE Cmd(ExpectedPath(root, n),
             IF step = "set-url-auth" THEN WordsSetUrl(ExpectedAuth(u, t, n))
             ELSE IF step = "remote update" THEN WordsUpdate
             ELSE IF step = "lfs fetch" THEN WordsLfs
             ELSE WordsSetUrl(ExpectedUnauth(n)))

IsCommandStep(step) == step \notin {"Stat", "Getwd", "Chdir"}

C26_NoInterItemDependency ==
    \A p \in Procs : \A i \in 1..Len(allRepos[p]) :
        LET ev == EventsOf(p, i)
            r == [k \in 1..Len(ev) |-> ev[k].res]
            steps == SubSeq(ExpectedSteps(r), 1, Len(ev))
            commands == SelectSeq(steps, IsCommandStep)
        IN  Len(ev) >= 1 =>
              /\ Len(ev) <= Len(ExpectedSteps(r))
              /\ Finished(p, i) <=> Len(ev) = Len(ExpectedSteps(r))
              /\ \A k \in 1..Len(ev) :
                    steps[k] = IF IsCmd(ev[k]) THEN StepOf(p, i, ev[k]) ELSE ev[k].op
              /\ CmdsIn(ev) =
                    [k \in 1..Len(commands) |->
                        CommandOf(commands[k], username[p], GithubToken[p],
                                  BackupFolder[p], allRepos[p][i])]

C26_Witness ==
    \E p \in Procs :
        /\ pc[p] = "done"
        /\ allRepos[p] = <<NewRepo, OldRepo>>
        /\ Len(CmdsIn(EventsOf(p, 1))) = 3
        /\ \E k \in 1..Len(EventsOf(p, 1)) : Failed(EventsOf(p, 1)[k], IsLfs)
        /\ Len(CmdsIn(EventsOf(p, 2))) = 4

(***************************************************************************)
(* C27.  With a listing that ends and calls that all return, a run that    *)
(* has started returns; no entry gets more than three commands on the      *)
(* clone path or four on the update path; and when the run has returned    *)
(* after the listing succeeded, every entry has been passed once and left. *)
(***************************************************************************)
BoundedPass(p) ==
    \A i \in 1..Len(allRepos[p]) :
        LET ev == EventsOf(p, i)
        IN  Len(ev) >= 1 =>
              /\ Len(CmdsIn(ev)) <= IF ev[1].res = "notexist" THEN 3 ELSE 4
              /\ Len(ev) <= 8

AllLeft(p) ==
    (pc[p] = "done" /\ ListingSucceeded(p)) =>
        /\ result[p] = Nil
        /\ \A i \in 1..Len(allRepos[p]) : Finished(p, i) /\ Len(EventsOf(p, i)) >= 1

C27_RunCompletes ==
    /\ \A p \in Procs : (pc[p] = "start") ~> (pc[p] = "done")
    /\ [](\A p \in Procs : BoundedPass(p) /\ AllLeft(p))

C27_Witness ==
    \E p \in Procs : \E i, j \in 1..Len(allRepos[p]) :
        /\ pc[p] = "done"
        /\ result[p] = Nil
        /\ Len(CmdsIn(EventsOf(p, i))) = 3
        /\ Len(CmdsIn(EventsOf(p, j))) = 4
        /\ Len(EventsOf(p, j)) = 8

(***************************************************************************)
(* C24.  The second of two consecutive runs starts as a process just       *)
(* constructed, gets the same listing and Stats every entry of it again,   *)
(* also those whose processing failed in the first run.  Its Stat answers  *)
(* for the backup directory as it is then, and that answer alone selects   *)
(* clone or update; its steps are fixed by the results of its own calls.   *)
(***************************************************************************)
First == 1

Second == 2

SuccessfulCloneOf(path, calls) ==
    \E k \in 1..Len(calls) :
        IsClone(calls[k]) /\ calls[k].res = "ok" /\ calls[k].args[7] = path

C24_SecondRunDecidesAfresh ==
    /\ pc[Second] \in {"off", "start"} =>
          /\ cwd[Second] = StartDir
          /\ username[Second] = << >> /\ allRepos[Second] = << >>
          /\ idx[Second] = 0 /\ originalWd[Second] = << >>
          /\ trace[Second] = << >>
    /\ pc[Second] # "off" => pc[First] = "done"
    /\ ListingSucceeded(Second) => allRepos[Second] = allRepos[First]
    /\ (pc[Second] = "done" /\ ListingSucceeded(Second)) =>
          \A i \in 1..Len(allRepos[Second]) : Has(EventsOf(Second, i), IsStat)
    /\ \A i \in 1..Len(allRepos[Second]) :
          LET ev == EventsOf(Second, i)
              r == [k \in 1..Len(ev) |-> ev[k].res]
              before == trace[First] \o SelectSeq(trace[Second], LAMBDA e : e.repo < i)
          IN  Len(ev) >= 1 =>
                /\ IsStat(ev[1]) /\ ev[1].args = <<PathOf(Second, i)>>
                /\ ev[1].res = "ok" => PathOf(Second, i) \in exists
                /\ ev[1].res = "notexist" => ~SuccessfulCloneOf(PathOf(Second, i), before)
                /\ Len(ev) >= 2 =>
                      /\ ev[1].res = "notexist" <=> IsClone(ev[2])
                      /\ ev[1].res = "ok" <=> ev[2].op = "Getwd"
                /\ Len(ev) <= Len(ExpectedSteps(r))
                /\ \A k \in 1..Len(ev) :
                      ExpectedSteps(r)[k] =
                          IF IsCmd(ev[k]) THEN StepOf(Second, i, ev[k]) ELSE ev[k].op

C24_Witness ==
    \E i, j \in 1..Len(allRepos[Second]) :
        /\ pc[Second] = "done"
        /\ Has(EventsOf(First, i), LAMBDA e : Failed(e, IsClone))
        /\ Has(EventsOf(Second, i), LAMBDA e : IsClone(e) /\ e.res = "ok")
        /\ Has(EventsOf(First, j), LAMBDA e : Failed(e, IsClone))
        /\ Has(EventsOf(Second, j), IsUpdate)


(***************************************************************************)
(* C23.  Two runs on the same backup root are not kept apart: the code     *)
(* takes no lock, and the remote URL of a mirror is one value shared by    *)
(* all runs.  A transfer command (remote update or lfs fetch) finds a      *)
(* remote URL other than the authenticated URL its own run wrote only when *)
(* another run has reset the remote of that mirror with a successful       *)
(* set-url to the unauthenticated URL; the URL it finds is then that       *)
(* unauthenticated URL.  Two overlapping runs on an existing repository    *)
(* reach such a transfer.                                                  *)
(***************************************************************************)
IsTransfer(e) == IsUpdate(e) \/ IsLfs(e)

\* the run q has reset the remote of the mirror in dir
HasReset(q, dir, n) ==
    \E j \in 1..Len(trace[q]) :
        /\ IsSetUrl(trace[q][j], ExpectedUnauth(n))
        /\ trace[q][j].dir = dir
        /\ trace[q][j].res = "ok"

C23_TransferWithoutCredential ==
    \A p \in Procs : \A k \in 1..Len(trace[p]) :
        LET e == trace[p][k]
            n == allRepos[p][e.repo]
        IN  (IsTransfer(e) /\ e.origin # ExpectedAuth(username[p], GithubToken[p], n)) =>
              /\ e.origin = ExpectedUnauth(n)
              /\ \E q \in Procs \ {p} : HasReset(q, e.dir, n)

C23_Witness ==
    \E p \in Procs : \E q \in Procs \ {p} : \E k \in 2..Len(trace[p]) :
        LET e == trace[p][k]
            n == allRepos[p][e.repo]
        IN  /\ IsUpdate(e)
            /\ n = OldRepo
            /\ EventsOf(p, e.repo)[1].res = "ok"
            /\ IsSetUrl(trace[p][k - 1],
                        ExpectedAuth(username[p], GithubToken[p], n))
            /\ trace[p][k - 1].res = "ok"
            /\ trace[p][k - 1].dir = e.dir
            /\ e.origin = ExpectedUnauth(n)
            /\ HasReset(q, e.dir, n)

=============================================================================
